---- MODULE Spec2Model ----
(***************************************************************************)
(* WritePrelogin (lib/srv/db/sqlserver/protocol/prelogin.go): assembly of  *)
(* the TDS PreLogin packet in a bytes.Buffer and its single write to the   *)
(* connection.                                                             *)
(*                                                                         *)
(* The option table `fields` is a local literal of WritePrelogin.  The     *)
(* algorithm below it (lines 34-89) is written for any map[uint8][]byte,   *)
(* so `fields` is an input of the model: PreloginFields is the literal of  *)
(* lines 26-32, the other option sets exercise the same code on the empty  *)
(* set, on zero-length values and on values large enough for the 16-bit    *)
(* fields to wrap.                                                         *)
(*                                                                         *)
(* Bytes are integers 0..255, a []byte is a sequence of them; byte k of    *)
(* the packet (0-based, as in the source) is w[k + 1].                     *)
(***************************************************************************)
EXTENDS Integers, Sequences, FiniteSets, TLC

VARIABLES
    fields,      \* the option table, map[uint8][]byte (line 26)
    pc,          \* position of the running call in WritePrelogin
    keys,        \* the keySlice (lines 35-39)
    offset,      \* uint16 running offset (lines 34, 57)
    i,           \* index of the running `for _, k := range keys` loop
    w,           \* contents of the bytes.Buffer (line 17)
    conn,        \* the buffers handed to conn.Write so far, in order
    werr,        \* TRUE iff the last conn.Write returned an error (line 84)
    ret,         \* return value of the last call: "none" while running
    calls,       \* number of calls of WritePrelogin started
    firstOrder,  \* order in which the first call ranged over the map
    reordered    \* some later call ranged over the map in another order

vars == <<fields, pc, keys, offset, i, w, conn, werr, ret, calls,
          firstOrder, reordered>>

----------------------------------------------------------------------------
(* Bounds of the model. *)

MaxLen == 1        \* longest value of the enumerated small option sets
MaxCalls == 2      \* calls of WritePrelogin in one behaviour

----------------------------------------------------------------------------
(* Protocol constants (package protocol, constants.go). *)

PacketTypePreLogin == 18
preloginVERSION == 0
preloginENCRYPTION == 1
preloginINSTOPT == 2
preloginTHREADID == 3
preloginMARS == 4
preloginTERMINATOR == 255
encryptNotSup == 2

HeaderLen == 8     \* the 8 bytes the buffer is created with
EntryLen == 5      \* kind, offset (2), size (2)

----------------------------------------------------------------------------
(* Integer and byte helpers. *)

Uint16(n) == n % 65536

\* binary.Write(w, binary.BigEndian, v) for a uint16 v: the two bytes appended.
BigEndian16(v) == <<v \div 256, v % 256>>

\* binary.BigEndian.Uint16 of two bytes.
ReadUint16(hi, lo) == hi * 256 + lo

PutUint16Skipped(buf, pos, v) == buf

\* binary.BigEndian.PutUint16(buf[pos:], v): bytes pos and pos+1 overwritten.
PutUint16(buf, pos, v) ==
    [buf EXCEPT ![pos + 1] = v \div 256, ![pos + 2] = v % 256]

NewBufferStatusZero == <<PacketTypePreLogin, 0, 0, 0, 0, 0, 0, 0>>

\* bytes.NewBuffer([]byte{PacketTypePreLogin, 0x1, 0, 0, 0, 0, 0, 0})
NewBuffer == <<PacketTypePreLogin, 1, 0, 0, 0, 0, 0, 0>>

\* offset := uint16(5*len(fields) + 1)
InitialOffsetAbsolute(f) == Uint16(HeaderLen + EntryLen * Cardinality(DOMAIN f) + 1)

InitialOffset(f) == Uint16(EntryLen * Cardinality(DOMAIN f) + 1)

\* size := uint16(len(v))
Size(v) == Uint16(Len(v))

\* offset += size
AdvanceForgotten(off, size) == off

Advance(off, size) == Uint16(off + size)

----------------------------------------------------------------------------
(* keySlice and sort.Sort. *)

LessReversed(a, b) == a > b

\* func (p keySlice) Less(i, j int) bool { return p[i] < p[j] }
Less(a, b) == a < b

RECURSIVE InsertSorted(_, _)
InsertSorted(s, k) ==
    IF s = <<>> THEN <<k>>
    ELSE IF Less(k, Head(s)) THEN <<k>> \o s
    ELSE <<Head(s)>> \o InsertSorted(Tail(s), k)

RECURSIVE SortBy(_)
SortBy(s) == IF s = <<>> THEN <<>> ELSE InsertSorted(SortBy(Tail(s)), Head(s))

SortOmitted(s) == s

\* sort.Sort(keys): the permutation of keys ordered by Less.
Sort(s) == SortBy(s)

\* The orders in which `for k := range fields` can visit the keys of the map.
IterationOrders(f) ==
    LET n == Cardinality(DOMAIN f)
    IN  {s \in [1..n -> DOMAIN f] : \A a, b \in 1..n : a # b => s[a] # s[b]}

----------------------------------------------------------------------------
(* The option sets. *)

\* The literal of lines 26-32; the instance name is "teleport" and a 0 byte.
PreloginFields ==
    (preloginVERSION :> <<0, 0, 0, 0, 0, 0>>) @@
    (preloginENCRYPTION :> <<encryptNotSup>>) @@
    (preloginINSTOPT :> <<116, 101, 108, 101, 112, 111, 114, 116, 0>>) @@
    (preloginTHREADID :> <<0, 0, 0, 0>>) @@
    (preloginMARS :> <<0>>)

\* A value of the greatest length the 16-bit size field can state.
LargestValue == [j \in 1..65535 |-> 0]

LargeFields == (preloginINSTOPT :> LargestValue) @@ (preloginMARS :> <<1>>)

SmallValues == UNION {[1..n -> {0, 255}] : n \in 0..MaxLen}

SmallSetsOver(kinds) == UNION {[ks -> SmallValues] : ks \in SUBSET kinds}

OptionSets ==
    SmallSetsOver({preloginVERSION, preloginENCRYPTION, preloginMARS})
        \cup {PreloginFields, LargeFields}

\* Option sets that hold an option of kind 0xFF.
SentinelOptionSets ==
    {f \in SmallSetsOver({preloginVERSION, preloginMARS, preloginTERMINATOR}) :
        preloginTERMINATOR \in DOMAIN f}

----------------------------------------------------------------------------
(* WritePrelogin, one action per step. *)

InitWith(sets) ==
    /\ fields \in sets
    /\ pc = "idle"
    /\ keys = <<>>
    /\ offset = 0
    /\ i = 0
    /\ w = <<>>
    /\ conn = <<>>
    /\ werr = FALSE
    /\ ret = "none"
    /\ calls = 0
    /\ firstOrder = <<>>
    /\ reordered = FALSE

Init == InitWith(OptionSets)

InitSentinel == InitWith(SentinelOptionSets)

\* Entry of a call: the buffer, the map and the initial offset (lines 15-35).
Call ==
    /\ pc \in {"idle", "returned"}
    /\ calls < MaxCalls
    /\ calls' = calls + 1
    /\ w' = NewBuffer
    /\ offset' = InitialOffset(fields)
    /\ keys' = <<>>
    /\ i' = 0
    /\ ret' = "none"
    /\ pc' = "range"
    /\ UNCHANGED <<fields, conn, werr, firstOrder, reordered>>

\* for k := range fields { keys = append(keys, k) } (lines 36-38)
RangeKeys ==
    /\ pc = "range"
    /\ \E order \in IterationOrders(fields) :
        /\ keys' = order
        /\ firstOrder' = IF calls = 1 THEN order ELSE firstOrder
        /\ reordered' = (reordered \/ (calls > 1 /\ order # firstOrder))
    /\ pc' = "sort"
    /\ UNCHANGED <<fields, offset, i, w, conn, werr, ret, calls>>

\* sort.Sort(keys) (line 39)
SortKeys ==
    /\ pc = "sort"
    /\ keys' = Sort(keys)
    /\ i' = 1
    /\ pc' = "descriptors"
    /\ UNCHANGED <<fields, offset, w, conn, werr, ret, calls, firstOrder, reordered>>

\* One iteration of the first loop (lines 42-58).  The writes go to a
\* bytes.Buffer, whose WriteByte and Write never return an error.
WriteDescriptor ==
    /\ pc = "descriptors"
    /\ i <= Len(keys)
    /\ LET k == keys[i]
           size == Size(fields[k])
       IN  /\ w' = w \o <<k>> \o BigEndian16(offset) \o BigEndian16(size)
           /\ offset' = Advance(offset, size)
    /\ i' = i + 1
    /\ UNCHANGED <<fields, pc, keys, conn, werr, ret, calls, firstOrder, reordered>>

\* w.WriteByte(preloginTERMINATOR) (lines 60-63)
WriteTerminator ==
    /\ pc = "descriptors"
    /\ i > Len(keys)
    /\ w' = Append(w, preloginTERMINATOR)
    /\ i' = 1
    /\ pc' = "values"
    /\ UNCHANGED <<fields, keys, offset, conn, werr, ret, calls, firstOrder, reordered>>

\* One iteration of the second loop (lines 66-75).  bytes.Buffer.Write
\* returns len(v), so the check of `written` never fails.
WriteValue ==
    /\ pc = "values"
    /\ i <= Len(keys)
    /\ w' = w \o fields[keys[i]]
    /\ i' = i + 1
    /\ UNCHANGED <<fields, pc, keys, offset, conn, werr, ret, calls, firstOrder, reordered>>

\* binary.BigEndian.PutUint16(pktBytes[2:], uint16(len(pktBytes))) (lines 78-79)
PatchLength ==
    /\ pc = "values"
    /\ i > Len(keys)
    /\ w' = PutUint16(w, 2, Uint16(Len(w)))
    /\ pc' = "send"
    /\ UNCHANGED <<fields, keys, offset, i, conn, werr, ret, calls, firstOrder, reordered>>

HandedWithoutHeader(buf) == SubSeq(buf, HeaderLen + 1, Len(buf))

\* pktBytes := w.Bytes(): the slice given to conn.Write (lines 78, 84)
Bytes(buf) == buf

ReturnNilAlways(failed) == "nil"

\* if err != nil { return trace.Wrap(err) }; return nil (lines 85-89)
Return(failed) == IF failed THEN "err" ELSE "nil"

\* _, err = conn.Write(pktBytes) and the return (lines 84-89).  The
\* connection accepts the buffer or reports an error.
ConnWrite ==
    /\ pc = "send"
    /\ \E failed \in BOOLEAN :
        /\ werr' = failed
        /\ ret' = Return(failed)
    /\ conn' = Append(conn, Bytes(w))
    /\ pc' = "returned"
    /\ UNCHANGED <<fields, keys, offset, i, w, calls, firstOrder, reordered>>

Next ==
    \/ Call
    \/ RangeKeys
    \/ SortKeys
    \/ WriteDescriptor
    \/ WriteTerminator
    \/ WriteValue
    \/ PatchLength
    \/ ConnWrite

Spec == Init /\ [][Next]_vars

SpecSentinel == InitSentinel /\ [][Next]_vars

----------------------------------------------------------------------------
(* Reading a packet: the layout of the wire format. *)

\* Byte k of packet p, k counted from 0.
ByteAt(p, k) == p[k + 1]

NumOptions == Cardinality(DOMAIN fields)

\* Descriptor entry j (from 0) of packet p.
EntryKind(p, j) == ByteAt(p, HeaderLen + EntryLen * j)
EntryOffset(p, j) ==
    ReadUint16(ByteAt(p, HeaderLen + EntryLen * j + 1),
               ByteAt(p, HeaderLen + EntryLen * j + 2))
EntryLength(p, j) ==
    ReadUint16(ByteAt(p, HeaderLen + EntryLen * j + 3),
               ByteAt(p, HeaderLen + EntryLen * j + 4))

\* The length field of the header, bytes 2-3.
HeaderLength(p) == ReadUint16(ByteAt(p, 2), ByteAt(p, 3))

RECURSIVE SumLen(_, _)
SumLen(f, S) ==
    IF S = {} THEN 0
    ELSE LET k == CHOOSE x \in S : TRUE
         IN  Len(f[k]) + SumLen(f, S \ {k})

\* 8 + 5*N + 1 + the sum of the value lengths.
TotalLength(f) ==
    HeaderLen + EntryLen * Cardinality(DOMAIN f) + 1 + SumLen(f, DOMAIN f)

\* The kinds of S in ascending order.
RECURSIVE Ascending(_)
Ascending(S) ==
    IF S = {} THEN <<>>
    ELSE LET m == CHOOSE x \in S : \A y \in S : x <= y
         IN  <<m>> \o Ascending(S \ {m})

\* The bytes of p from position `from` (counted from 0), `n` of them;
\* <<-1>> when the packet is too short to hold them.
Slice(p, from, n) ==
    IF from + n > Len(p) THEN <<-1>> ELSE SubSeq(p, from + 1, from + n)

\* The inverse of the layout: the descriptor entries are read from position
\* pos up to the terminator, each value as `length` bytes at `offset`
\* measured from position base.
RECURSIVE DecodeFrom(_, _, _)
DecodeFrom(p, pos, base) ==
    IF pos + EntryLen > Len(p) \/ ByteAt(p, pos) = preloginTERMINATOR
    THEN <<>>
    ELSE LET off == ReadUint16(ByteAt(p, pos + 1), ByteAt(p, pos + 2))
             len == ReadUint16(ByteAt(p, pos + 3), ByteAt(p, pos + 4))
         IN  (ByteAt(p, pos) :> Slice(p, base + off, len))
                 @@ DecodeFrom(p, pos + EntryLen, base)

Decode(p, base) == DecodeFrom(p, HeaderLen, base)

\* The packets handed to the connection.
Packets == {conn[n] : n \in 1..Len(conn)}

----------------------------------------------------------------------------
(* The claims. *)

C2_RoundTripFromPacketStart ==
    \A p \in Packets : Decode(p, 0) = fields

\* C2 amended: decoding a packet of at most 65535 bytes with every value
\* read at `offset` bytes from byte 8, the start of the descriptor table,
\* gives back the kind -> value mapping.
C2_RoundTripFromTableStart ==
    \A p \in Packets : Len(p) <= 65535 => Decode(p, HeaderLen) = fields

C2_Witness ==
    /\ conn # <<>>
    /\ fields = PreloginFields
    /\ Decode(conn[1], HeaderLen) = PreloginFields

\* C3 as stated: the offset of every descriptor entry counts the 8-byte
\* header, the descriptor table, the terminator and the values of the
\* options of smaller kind: it is the position of the value in the packet.
C3_OffsetCountsHeader ==
    \A p \in Packets : \A j \in 0..(NumOptions - 1) :
        LET k == EntryKind(p, j)
            before == SumLen(fields, {x \in DOMAIN fields : x < k})
        IN  /\ EntryOffset(p, j) = HeaderLen + EntryLen * NumOptions + 1 + before
            /\ Slice(p, EntryOffset(p, j), Len(fields[k])) = fields[k]

\* C3 amended: the offset of every descriptor entry counts the descriptor
\* table, the terminator and the values of the options of smaller kind, not
\* the header, modulo 2^16; in a packet of at most 65535 bytes it is the
\* position of the value's first byte measured from byte 8.
C3_OffsetCountsFromTable ==
    \A p \in Packets : \A j \in 0..(NumOptions - 1) :
        LET k == EntryKind(p, j)
            before == SumLen(fields, {x \in DOMAIN fields : x < k})
        IN  /\ k \in DOMAIN fields
            /\ EntryOffset(p, j) = (EntryLen * NumOptions + 1 + before) % 65536
            /\ (Len(p) <= 65535 =>
                  Slice(p, HeaderLen + EntryOffset(p, j), Len(fields[k])) = fields[k])

C3_Witness ==
    /\ conn # <<>>
    /\ fields = PreloginFields
    /\ EntryKind(conn[1], 2) = preloginINSTOPT
    /\ EntryOffset(conn[1], 2) = 33
    /\ firstOrder # Ascending(DOMAIN fields)

C5_AscendingKindsThenTerminator ==
    \A p \in Packets :
        /\ \A j \in 0..(NumOptions - 2) : EntryKind(p, j) < EntryKind(p, j + 1)
        /\ ByteAt(p, HeaderLen + EntryLen * NumOptions) = preloginTERMINATOR
        /\ \A j \in 0..(NumOptions - 1) : EntryKind(p, j) # preloginTERMINATOR

C5_Witness ==
    /\ conn # <<>>
    /\ NumOptions = 5
    /\ firstOrder # Ascending(DOMAIN fields)
    /\ ByteAt(conn[1], HeaderLen + EntryLen * 5) = preloginTERMINATOR

\* C6: the packets of two calls for the same option set are byte-identical,
\* whatever the orders in which the calls ranged over the map.
C6_SamePacketEveryCall ==
    \A a, b \in 1..Len(conn) : conn[a] = conn[b]

C6_Witness ==
    /\ Len(conn) >= 2
    /\ reordered
    /\ NumOptions >= 2

Complete(p) ==
    /\ Len(p) = TotalLength(fields)
    /\ ByteAt(p, HeaderLen + EntryLen * NumOptions) = preloginTERMINATOR
    /\ HeaderLength(p) = Len(p) % 65536

\* C8: a call writes to the connection once, the complete length-patched
\* packet, after everything has been appended to the buffer; no step of a
\* call hands anything else to the connection.
C8_OneWriteOfCompletePacket ==
    [][/\ (pc' = "returned" => Len(conn') = calls')
       /\ (pc' \notin {"idle", "returned"} => Len(conn') = calls' - 1)
       /\ (conn' # conn =>
              /\ pc = "send"
              /\ pc' = "returned"
              /\ conn' = Append(conn, w)
              /\ Complete(w))]_vars

C8_Witness ==
    /\ pc = "returned"
    /\ fields = PreloginFields
    /\ conn = <<w>>
    /\ Len(w) = 55

\* C9: a call whose write to the connection failed returns an error and has
\* written once; a call returns nil only when its write reported no error.
C9_WriteErrorReturned ==
    pc = "returned" =>
        /\ ret \in {"nil", "err"}
        /\ (werr => ret = "err")
        /\ (ret = "nil" => ~werr)
        /\ Len(conn) = calls

C9_Witness ==
    /\ pc = "returned"
    /\ werr
    /\ ret = "err"
    /\ calls = 2

\* C10: the packet of the empty option set is 9 bytes: type, status 1,
\* length 9, four zero bytes and the terminator at byte 8.
C10_EmptySetPacket ==
    DOMAIN fields = {} =>
        \A p \in Packets :
            p = <<PacketTypePreLogin, 1, 0, 9, 0, 0, 0, 0, preloginTERMINATOR>>

C10_Witness ==
    /\ DOMAIN fields = {}
    /\ conn # <<>>
    /\ Len(conn[1]) = 9

====
